---- MODULE Spec2Model ----
(***************************************************************************)
(* A model of the three scripts of the repository:                         *)
(*   - best_stacking_meta_learner_across_iterations.py (the selector),     *)
(*   - process_noteevents_text.py (the note cleaner and aggregator),       *)
(*   - resource_logger.py (the ResourceLogger context manager).            *)
(* Text (file names, paths, notes) is a sequence of one-character strings, *)
(* so that globbing, the iter<digits> search, str.replace, str.strip and   *)
(* len() are computed on the characters as Python computes them.           *)
(***************************************************************************)
EXTENDS Integers, Sequences, FiniteSets, TLC

VARIABLES
    \* ---- selector -------------------------------------------------------
    fs,                 \* the directory BASE: file name -> content
    fs0,                \* the directory as it was when the selector started
    sel_pc,             \* the selector's position in the script
    fold_score_files,   \* line 22
    iteration_scores,   \* lines 30-42
    best_file,          \* line 48
    best_avg_f1,        \* line 49
    best_iter,          \* line 55
    metrics_files,      \* line 71
    copied,             \* every shutil.copy of this run, as <<source, target>>
    sel_error,          \* the exception that ended the run, or "none"
    \* ---- note aggregator ------------------------------------------------
    notes_df,           \* the note table, a sequence of rows
    clean_df,           \* the table as it is after line 37 (filtered and cleaned)
    notes_pc,           \* the aggregator's position in the script
    notes_grouped,      \* lines 46-51: per admission, the ordered note list
    note_sequences,     \* lines 56-75: per admission, the merged note list
    \* ---- resource logger ------------------------------------------------
    log,                \* resource_usage.csv: "absent" or its rows
    rl_pc,              \* per invocation: its position in the generator
    rl_start,           \* per invocation: time.time() at entry
    rl_row,             \* per invocation: the data row it built (line 39)
    rl_write_header,    \* per invocation: line 41
    rl_pending,         \* per invocation: rows written into its file buffer
    rl_completed,       \* the tags whose block completed normally, in order
    clock,              \* time.time(), in thousandths of an hour
    cuda,               \* torch.cuda.is_available()
    concurrent          \* whether invocations may overlap in this run

selVars == <<fs, fs0, sel_pc, fold_score_files, iteration_scores, best_file,
             best_avg_f1, best_iter, metrics_files, copied, sel_error>>
noteVars == <<notes_df, clean_df, notes_pc, notes_grouped, note_sequences>>
rlVars == <<log, rl_pc, rl_start, rl_row, rl_write_header, rl_pending,
            rl_completed, clock, cuda, concurrent>>
vars == <<selVars, noteVars, rlVars>>

(***************************************************************************)
(* Text                                                                    *)
(***************************************************************************)

\* The characters the model uses, in code-point order (Python compares
\* strings by code point).
CodePointOrder ==
    <<"\n", " ", "*", "-", ".", "/", "0", "1", "2", "3", "4", "5", "6", "7", "8", "9",
      "A", "B", "C", "D", "E", "F", "G", "H", "I", "J", "K", "L", "M", "N", "O",
      "P", "Q", "R", "S", "T", "U", "V", "W", "X", "Y", "Z", "[", "]", "_",
      "a", "b", "c", "d", "e", "f", "g", "h", "i", "j", "k", "l", "m", "n", "o",
      "p", "q", "r", "s", "t", "u", "v", "w", "x", "y", "z">>

Ord(c) == CHOOSE i \in 1..Len(CodePointOrder) : CodePointOrder[i] = c

Digits == {"0", "1", "2", "3", "4", "5", "6", "7", "8", "9"}

\* a < b for Python strings
StrLess(a, b) ==
    \E k \in 1..(Len(a) + 1) :
        /\ \A j \in 1..(k - 1) : j <= Len(b) /\ a[j] = b[j]
        /\ k <= Len(b)
        /\ (k = Len(a) + 1 \/ Ord(a[k]) < Ord(b[k]))

StartsWith(s, p) == Len(p) <= Len(s) /\ SubSeq(s, 1, Len(p)) = p

EndsWith(s, p) == Len(p) <= Len(s) /\ SubSeq(s, Len(s) - Len(p) + 1, Len(s)) = p

\* s[i:i+len(p)] == p
MatchAt(s, p, i) == i + Len(p) - 1 <= Len(s) /\ SubSeq(s, i, i + Len(p) - 1) = p

Contains(s, p) == \E i \in 1..(Len(s) + 1) : MatchAt(s, p, i)

(***************************************************************************)
(* Selector: best_stacking_meta_learner_across_iterations.py               *)
(***************************************************************************)

BASE == <<".","/">>

FoldPrefix == <<"s","t","a","c","k","e","r","_","b","e","s","t","_","m","o","d","e","l","_","f","o","l","d","s","_">>

ModelPrefix == <<"s","t","a","c","k","e","r","_","b","e","s","t","_","m","o","d","e","l","_">>

MetricsPrefix == <<"s","t","a","c","k","e","r","_","b","i","n","a","r","y","_","m","e","t","r","i","c","s","_">>

CsvExt == <<".","c","s","v">>

TxtExt == <<".","t","x","t">>

PklExt == <<".","p","k","l">>

AcrossIterations == <<"a","c","r","o","s","s","_","i","t","e","r","a","t","i","o","n","s">>

IterLit == <<"i","t","e","r">>

\* os.path.join(BASE, "best-stacker-model-across-iterations.md"), as a name in BASE
output_model_card == <<"b","e","s","t","-","s","t","a","c","k","e","r","-","m","o","d","e","l","-","a","c","r","o","s","s","-","i","t","e","r","a","t","i","o","n","s",".","m","d">>

\* os.path.join(BASE, name); glob returns its matches in this form too
PathOf(name) == BASE \o name

\* os.path.basename(path)
Basename(path) ==
    LET slashes == {i \in 1..Len(path) : path[i] = "/"}
        last == IF slashes = {} THEN 0 ELSE CHOOSE i \in slashes : \A j \in slashes : j <= i
    IN  SubSeq(path, last + 1, Len(path))

\* The names in BASE that the pattern <prefix>*<suffix> matches.
GlobNames(dir, prefix, suffix) ==
    {n \in DOMAIN dir : /\ StartsWith(n, prefix)
                        /\ EndsWith(n, suffix)
                        /\ Len(n) >= Len(prefix) + Len(suffix)}

\* glob.glob(os.path.join(BASE, pattern)): the matching paths, as a set (glob
\* gives no order).
Glob(dir, prefix, suffix) == {PathOf(n) : n \in GlobNames(dir, prefix, suffix)}

RECURSIVE SortedSeq(_)
\* sorted(paths): ascending by code point
SortedSeq(S) ==
    IF S = {} THEN <<>>
    ELSE LET m == CHOOSE x \in S : \A y \in S \ {x} : StrLess(x, y)
         IN  <<m>> \o SortedSeq(S \ {m})

\* The orders in which glob.glob may return a set of matches.
Orderings(S) ==
    {q \in [1..Cardinality(S) -> S] : \A i, j \in 1..Cardinality(S) : i # j => q[i] # q[j]}

NoMatch == <<>>

\* re.search(r"(iter[0-9]+)", s).group(1): the leftmost "iter" that a digit
\* follows, with all the digits after it; NoMatch when there is none.
ReSearchIter(s) ==
    LET starts == {i \in 1..Len(s) : /\ MatchAt(s, IterLit, i)
                                     /\ i + 4 <= Len(s)
                                     /\ s[i + 4] \in Digits}
    IN  IF starts = {} THEN NoMatch
        ELSE LET i == CHOOSE k \in starts : \A j \in starts : k <= j
                 e == CHOOSE k \in (i + 4)..Len(s) :
                          /\ \A j \in (i + 4)..k : s[j] \in Digits
                          /\ (k = Len(s) \/ s[k + 1] \notin Digits)
             IN  SubSeq(s, i, e)

RECURSIVE Replace(_, _, _)
\* s.replace(old, new): every non-overlapping occurrence, left to right
Replace(s, old, new) ==
    IF s = <<>> THEN <<>>
    ELSE IF MatchAt(s, old, 1)
         THEN new \o Replace(SubSeq(s, Len(old) + 1, Len(s)), old, new)
         ELSE <<Head(s)>> \o Replace(Tail(s), old, new)

RECURSIVE SumSeq(_)
SumSeq(q) == IF q = <<>> THEN 0 ELSE Head(q) + SumSeq(Tail(q))

\* df["Macro-F1"].mean(), kept exact as sum / count (scores are in hundredths)
Mean(scores) == [num |-> SumSeq(scores), den |-> Len(scores)]

MeanLess(a, b) == a.num * b.den < b.num * a.den

MeanEq(a, b) == a.num * b.den = b.num * a.den

\* A faulty variant of IdxMax: the last row that holds the maximum.
IdxMaxLast(rows) ==
    CHOOSE i \in 1..Len(rows) :
        /\ \A j \in 1..Len(rows) : ~MeanLess(rows[i].avg_macro_f1, rows[j].avg_macro_f1)
        /\ \A j \in (i + 1)..Len(rows) : MeanLess(rows[j].avg_macro_f1, rows[i].avg_macro_f1)

\* A faulty variant of IdxMax: the row that holds the minimum (idxmin).
IdxMin(rows) ==
    CHOOSE i \in 1..Len(rows) :
        /\ \A j \in 1..Len(rows) : ~MeanLess(rows[j].avg_macro_f1, rows[i].avg_macro_f1)
        /\ \A j \in 1..(i - 1) : MeanLess(rows[i].avg_macro_f1, rows[j].avg_macro_f1)

\* iteration_scores_df["avg_macro_f1"].idxmax(): the first row that holds the
\* maximum
IdxMax(rows) ==
    CHOOSE i \in 1..Len(rows) :
        /\ \A j \in 1..Len(rows) : ~MeanLess(rows[i].avg_macro_f1, rows[j].avg_macro_f1)
        /\ \A j \in 1..(i - 1) : MeanLess(rows[j].avg_macro_f1, rows[i].avg_macro_f1)

\* f"{best_avg_f1:.4f}": the mean in ten-thousandths, rounded to nearest
Fmt4(m) == (200 * m.num + m.den) \div (2 * m.den)

\* ---- file contents ------------------------------------------------------
NoCard == [best_iter |-> <<>>, avg |-> 0, artifacts |-> <<>>]

\* a fold-score CSV with its Macro-F1 column
FoldContent(t) == [kind |-> "folds", macro_f1 |-> t, origin |-> <<>>, card |-> NoCard]

\* any other file: opaque bytes, told apart by the file that first held them
Blob(n) == [kind |-> "blob", macro_f1 |-> <<>>, origin |-> n, card |-> NoCard]

\* the model card written by lines 80-90
CardContent(c) == [kind |-> "card", macro_f1 |-> <<>>, origin |-> <<>>, card |-> c]

\* shutil.copy(src, dst): dst is created or overwritten with src's content
CopyFile(dir, src, dst) ==
    [n \in DOMAIN dir \cup {dst} |-> IF n = dst THEN dir[src] ELSE dir[n]]

\* open(name, "w") ... write: name is created or truncated, then written
WriteFile(dir, name, content) ==
    [n \in DOMAIN dir \cup {name} |-> IF n = name THEN content ELSE dir[n]]

RECURSIVE CopyAll(_, _, _)
\* lines 72-75: the loop over metrics_files
CopyAll(dir, files, tag) ==
    IF files = <<>> THEN dir
    ELSE LET fname == Basename(Head(files))
             new_fname == Replace(fname, tag, AcrossIterations)
         IN  CopyAll(CopyFile(dir, fname, new_fname), Tail(files), tag)

\* the <<source, target>> pairs of the loop of lines 72-75
MetricsCopies(files, tag) ==
    {<<Basename(files[i]), Replace(Basename(files[i]), tag, AcrossIterations)>> :
        i \in 1..Len(files)}

\* ---- the directories a run may start from -----------------------------
MaxFoldFiles == 2

MaxArtifacts == 3

Iter1 == <<"i","t","e","r","1">>

Iter10 == <<"i","t","e","r","1","0">>

\* stacker_best_model_folds_<stem>.csv; "final" carries no iteration tag
FoldNames ==
    {FoldPrefix \o stem \o CsvExt : stem \in {<<"f","i","n","a","l">>, Iter1, Iter10}}

\* Macro-F1 columns (hundredths), each with at least one fold
FoldTables == {<<50>>, <<100>>, <<100, 100>>, <<50, 100>>, <<100, 50, 100>>}

BestTxt == ModelPrefix \o AcrossIterations \o TxtExt

BestPkl == ModelPrefix \o AcrossIterations \o PklExt

\* model and metrics files of iterations iter1 and iter10, and a
\* best-across-iterations text file left by an earlier run
ArtifactNames ==
    { ModelPrefix \o Iter1 \o TxtExt,
      ModelPrefix \o Iter1 \o PklExt,
      MetricsPrefix \o Iter1 \o <<"_","a">> \o CsvExt,
      MetricsPrefix \o Iter1 \o <<"_">> \o Iter1 \o CsvExt,
      ModelPrefix \o Iter10 \o TxtExt,
      MetricsPrefix \o Iter10 \o <<"_","a">> \o CsvExt,
      BestTxt }

InitialDirs ==
    UNION { UNION { { [n \in folds \cup arts |->
                         IF n \in folds THEN FoldContent(tables[n]) ELSE Blob(n)] :
                      tables \in [folds -> FoldTables] } :
                    arts \in {a \in SUBSET ArtifactNames : Cardinality(a) <= MaxArtifacts} } :
            folds \in {f \in SUBSET FoldNames : Cardinality(f) <= MaxFoldFiles} }

SelectorIdle ==
    /\ fs = <<>> /\ fs0 = <<>> /\ sel_pc = "off"
    /\ fold_score_files = <<>> /\ iteration_scores = <<>>
    /\ best_file = <<>> /\ best_avg_f1 = [num |-> 0, den |-> 1]
    /\ best_iter = <<>> /\ metrics_files = <<>>
    /\ copied = {} /\ sel_error = "none"

InitSelector ==
    /\ fs \in InitialDirs
    /\ fs0 = fs
    /\ sel_pc = "start"
    /\ fold_score_files = <<>> /\ iteration_scores = <<>>
    /\ best_file = <<>> /\ best_avg_f1 = [num |-> 0, den |-> 1]
    /\ best_iter = <<>> /\ metrics_files = <<>>
    /\ copied = {} /\ sel_error = "none"

\* ---- the script, step by step -------------------------------------------
\* Step 1 (lines 22-25)
FindFolds ==
    /\ sel_pc = "start"
    /\ fold_score_files' = SortedSeq(Glob(fs, FoldPrefix, CsvExt))
    /\ IF fold_score_files' = <<>>
       THEN sel_pc' = "failed" /\ sel_error' = "FileNotFoundError"
       ELSE sel_pc' = "collect" /\ UNCHANGED sel_error
    /\ UNCHANGED <<fs, fs0, iteration_scores, best_file, best_avg_f1, best_iter,
                   metrics_files, copied>>
    /\ UNCHANGED <<noteVars, rlVars>>

\* Step 2 (lines 30-42)
CollectScores ==
    /\ sel_pc = "collect"
    /\ iteration_scores' =
           [i \in 1..Len(fold_score_files) |->
               [file |-> fold_score_files[i],
                avg_macro_f1 |-> Mean(fs[Basename(fold_score_files[i])].macro_f1)]]
    /\ sel_pc' = "best"
    /\ UNCHANGED <<fs, fs0, fold_score_files, best_file, best_avg_f1, best_iter,
                   metrics_files, copied, sel_error>>
    /\ UNCHANGED <<noteVars, rlVars>>

\* A faulty variant of FindBest: a winning file without a tag is not an error.
FindBestNoRaise ==
    /\ sel_pc = "best"
    /\ LET best_row == iteration_scores[IdxMax(iteration_scores)]
       IN  /\ best_file' = best_row.file
           /\ best_avg_f1' = best_row.avg_macro_f1
           /\ best_iter' = ReSearchIter(best_row.file)
           /\ sel_pc' = "copy_txt"
           /\ UNCHANGED sel_error
    /\ UNCHANGED <<fs, fs0, fold_score_files, iteration_scores, metrics_files, copied>>
    /\ UNCHANGED <<noteVars, rlVars>>

\* Step 3 (lines 47-55)
FindBest ==
    /\ sel_pc = "best"
    /\ LET best_row == iteration_scores[IdxMax(iteration_scores)]
           match == ReSearchIter(best_row.file)
       IN  /\ best_file' = best_row.file
           /\ best_avg_f1' = best_row.avg_macro_f1
           /\ IF match = NoMatch
              THEN sel_pc' = "failed" /\ sel_error' = "ValueError" /\ UNCHANGED best_iter
              ELSE sel_pc' = "copy_txt" /\ best_iter' = match /\ UNCHANGED sel_error
    /\ UNCHANGED <<fs, fs0, fold_score_files, iteration_scores, metrics_files, copied>>
    /\ UNCHANGED <<noteVars, rlVars>>

\* Step 4, text file (lines 61-63)
CopyTxt ==
    /\ sel_pc = "copy_txt"
    /\ LET txt_file == ModelPrefix \o best_iter \o TxtExt
       IN  IF txt_file \in DOMAIN fs
           THEN /\ fs' = CopyFile(fs, txt_file, BestTxt)
                /\ copied' = copied \cup {<<txt_file, BestTxt>>}
           ELSE UNCHANGED <<fs, copied>>
    /\ sel_pc' = "copy_pkl"
    /\ UNCHANGED <<fs0, fold_score_files, iteration_scores, best_file, best_avg_f1,
                   best_iter, metrics_files, sel_error>>
    /\ UNCHANGED <<noteVars, rlVars>>

\* Step 4, pickle file (lines 66-68)
CopyPkl ==
    /\ sel_pc = "copy_pkl"
    /\ LET pkl_file == ModelPrefix \o best_iter \o PklExt
       IN  IF pkl_file \in DOMAIN fs
           THEN /\ fs' = CopyFile(fs, pkl_file, BestPkl)
                /\ copied' = copied \cup {<<pkl_file, BestPkl>>}
           ELSE UNCHANGED <<fs, copied>>
    /\ sel_pc' = "copy_metrics"
    /\ UNCHANGED <<fs0, fold_score_files, iteration_scores, best_file, best_avg_f1,
                   best_iter, metrics_files, sel_error>>
    /\ UNCHANGED <<noteVars, rlVars>>

\* A faulty variant of CopyMetrics: the pattern lacks the "_" after the tag, so the
\* files of iter10 match the pattern of iter1.
CopyMetricsLooseGlob ==
    /\ sel_pc = "copy_metrics"
    /\ \E found \in Orderings(Glob(fs, MetricsPrefix \o best_iter, CsvExt)) :
        /\ metrics_files' = found
        /\ fs' = CopyAll(fs, found, best_iter)
        /\ copied' = copied \cup MetricsCopies(found, best_iter)
    /\ sel_pc' = "card"
    /\ UNCHANGED <<fs0, fold_score_files, iteration_scores, best_file, best_avg_f1,
                   best_iter, sel_error>>
    /\ UNCHANGED <<noteVars, rlVars>>

\* Step 4, binary metrics CSVs (lines 71-75)
CopyMetrics ==
    /\ sel_pc = "copy_metrics"
    /\ \E found \in Orderings(Glob(fs, MetricsPrefix \o best_iter \o <<"_">>, CsvExt)) :
        /\ metrics_files' = found
        /\ fs' = CopyAll(fs, found, best_iter)
        /\ copied' = copied \cup MetricsCopies(found, best_iter)
    /\ sel_pc' = "card"
    /\ UNCHANGED <<fs0, fold_score_files, iteration_scores, best_file, best_avg_f1,
                   best_iter, sel_error>>
    /\ UNCHANGED <<noteVars, rlVars>>

\* Step 5 (lines 80-90)
WriteCard ==
    /\ sel_pc = "card"
    /\ fs' = WriteFile(fs, output_model_card,
                 CardContent([best_iter |-> best_iter,
                              avg |-> Fmt4(best_avg_f1),
                              artifacts |-> <<BestTxt, BestPkl>> \o
                                  [i \in 1..Len(metrics_files) |->
                                      Replace(Basename(metrics_files[i]), best_iter,
                                              AcrossIterations)]]))
    /\ sel_pc' = "done"
    /\ UNCHANGED <<fs0, fold_score_files, iteration_scores, best_file, best_avg_f1,
                   best_iter, metrics_files, copied, sel_error>>
    /\ UNCHANGED <<noteVars, rlVars>>

(***************************************************************************)
(* Note cleaner and aggregator: process_noteevents_text.py                 *)
(***************************************************************************)

Whitespace == {" ", "\n"}

UpperCase == <<"A", "B", "C", "D", "E", "F", "G", "H", "I", "J", "K", "L", "M",
               "N", "O", "P", "Q", "R", "S", "T", "U", "V", "W", "X", "Y", "Z">>

LowerCase == <<"a", "b", "c", "d", "e", "f", "g", "h", "i", "j", "k", "l", "m",
               "n", "o", "p", "q", "r", "s", "t", "u", "v", "w", "x", "y", "z">>

\* str.lower()
Lower(s) ==
    [i \in 1..Len(s) |->
        IF \E k \in 1..Len(UpperCase) : UpperCase[k] = s[i]
        THEN LowerCase[CHOOSE k \in 1..Len(UpperCase) : UpperCase[k] = s[i]]
        ELSE s[i]]

RECURSIVE DropWhile(_, _)
DropWhile(s, class) ==
    IF s # <<>> /\ Head(s) \in class THEN DropWhile(Tail(s), class) ELSE s

RECURSIVE SubRuns(_, _, _)
\* re.sub(r"<class>+", rep, s): every maximal run of characters of class
\* becomes rep
SubRuns(s, class, rep) ==
    IF s = <<>> THEN <<>>
    ELSE IF Head(s) \in class
         THEN rep \o SubRuns(DropWhile(s, class), class, rep)
         ELSE <<Head(s)>> \o SubRuns(Tail(s), class, rep)

RECURSIVE RStrip(_)
RStrip(s) ==
    IF s # <<>> /\ s[Len(s)] \in Whitespace THEN RStrip(SubSeq(s, 1, Len(s) - 1)) ELSE s

\* str.strip()
Strip(s) == RStrip(DropWhile(s, Whitespace))

\* clean_text (lines 24-30)
clean_text(text) ==
    LET t1 == Lower(text)
        t2 == SubRuns(t1, Whitespace, <<" ">>)
        t3 == SubRuns(t2, {"_"}, <<" ">>)
        t4 == Replace(Replace(t3, <<"[","*","*">>, <<>>), <<"*","*","]">>, <<>>)
    IN  Strip(t4)

min_note_len == 40

keep_categories == {"Discharge summary", "Nursing", "Physician"}

drop_patterns ==
    { <<"d","i","c","t","a","t","e","d"," ","b","y">>,
      <<"s","i","g","n","e","d"," ","e","l","e","c","t","r","o","n","i","c","a","l","l","y">> }

\* missing values of the table: a missing HADM_ID, a missing TEXT, and a
\* CHARTTIME that pd.to_datetime(errors='coerce') cannot parse
NaN == -1

NaT == -1

Malformed == 0

NaNText == <<"NaN">>

\* pd.to_datetime(v, errors='coerce') (line 42)
ToDatetime(v) == IF v = Malformed \/ v = NaN THEN NaT ELSE v

\* the order of sort_values on one key, missing values last
KeyLeq(a, b) == b = NaT \/ (a # NaT /\ a <= b)

\* row a may stand before row b after
\* sort_values(by=['SUBJECT_ID', 'HADM_ID', 'CHARTTIME'])
RowLeq(a, b) ==
    \/ a.SUBJECT_ID < b.SUBJECT_ID
    \/ /\ a.SUBJECT_ID = b.SUBJECT_ID
       /\ \/ a.HADM_ID < b.HADM_ID
          \/ a.HADM_ID = b.HADM_ID /\ KeyLeq(a.CHARTTIME, b.CHARTTIME)

\* line 15
NotMissing(row) == row.TEXT # NaNText /\ row.HADM_ID # NaN

\* line 19
KeptCategory(row) == row.CATEGORY \in keep_categories

\* line 34
NotTemplate(row) == ~ \E pat \in drop_patterns : Contains(Lower(row.TEXT), pat)

\* A faulty variant of MergeNotes: the buffer left at the end of the list is dropped.
RECURSIVE MergeNotesNoFlush(_, _, _)
MergeNotesNoFlush(note_list, combined, buffer) ==
    IF note_list = <<>> THEN combined
    ELSE LET note == Head(note_list)
         IN  IF Len(note) < min_note_len
             THEN MergeNotesNoFlush(Tail(note_list), combined, buffer \o <<" ">> \o note)
             ELSE MergeNotesNoFlush(Tail(note_list),
                      (IF buffer # <<>> THEN Append(combined, Strip(buffer)) ELSE combined)
                          \o <<note>>,
                      <<>>)

\* lines 63-73: the loop over one admission's note_list, from the state
\* (combined, buffer)
RECURSIVE MergeNotes(_, _, _)
MergeNotes(note_list, combined, buffer) ==
    IF note_list = <<>>
    THEN IF buffer # <<>> THEN Append(combined, Strip(buffer)) ELSE combined
    ELSE LET note == Head(note_list)
         IN  IF Len(note) < min_note_len
             THEN MergeNotes(Tail(note_list), combined, buffer \o <<" ">> \o note)
             ELSE MergeNotes(Tail(note_list),
                      (IF buffer # <<>> THEN Append(combined, Strip(buffer)) ELSE combined)
                          \o <<note>>,
                      <<>>)

RECURSIVE GroupRows(_, _)
\* lines 46-51: notes_grouped[subj][hadm].append(text), the two-level
\* dictionary kept as its (subj, hadm) entries in insertion order
GroupRows(df, grouped) ==
    IF df = <<>> THEN grouped
    ELSE LET row == Head(df)
             at == {k \in 1..Len(grouped) :
                       grouped[k].subj = row.SUBJECT_ID /\ grouped[k].hadm = row.HADM_ID}
         IN  IF at = {}
             THEN GroupRows(Tail(df),
                      Append(grouped, [subj |-> row.SUBJECT_ID, hadm |-> row.HADM_ID,
                                       notes |-> <<row.TEXT>>]))
             ELSE GroupRows(Tail(df),
                      [grouped EXCEPT ![CHOOSE k \in at : TRUE].notes = Append(@, row.TEXT)])

\* notes_grouped[subj].values(): the admissions of subj, in insertion order
AdmissionsOf(grouped, subj) == SelectSeq(grouped, LAMBDA g : g.subj = subj)

\* ---- the note tables a run may load ----------------------------------
MaxRows == 3

RawShort == <<"S","h","o","r","t">>

RawBlank == <<"_","_","_","_","_","_">>

RawLong == <<"A"," ","s","u","f","f","i","c","i","e","n","t","l","y"," ","l","o","n","g"," ","n","o","t","e"," ","t","e","x","t"," ","e","x","c","e","e","d","i","n","g"," ","f","o","r","t","y"," ","c","h","a","r","a","c","t","e","r","s">>

\* a note of exactly min_note_len characters
RawForty == <<"E","x","a","c","t","l","y"," ","f","o","r","t","y"," ","c","h","a","r","a","c","t","e","r","s"," ","a","r","e"," ","i","n"," ","t","h","i","s"," ","o","n","e">>

RawMarked == <<"[","*","*","x","*","*","]","\n"," ","o","k">>

RawDictated == <<"D","i","c","t","a","t","e","d"," ","B","y">>

NoteRow(subj, hadm, time, cat, text) ==
    [SUBJECT_ID |-> subj, HADM_ID |-> hadm, CHARTTIME |-> time, CATEGORY |-> cat,
     TEXT |-> text]

RowPool ==
    { NoteRow(1, 100, t, "Nursing", x) : t \in {1, 2}, x \in {RawShort, RawBlank, RawLong} }
    \cup
    { NoteRow(1, 100, 2, "Nursing", RawForty),
      NoteRow(1, 200, 1, "Physician", RawShort),
      NoteRow(2, 300, 1, "Discharge summary", RawLong),
      NoteRow(1, 100, Malformed, "Nursing", RawMarked),
      NoteRow(1, NaN, 1, "Nursing", RawShort),
      NoteRow(1, 100, 1, "Nursing", NaNText),
      NoteRow(1, 100, 1, "Radiology", RawShort),
      NoteRow(1, 100, 1, "Nursing", RawDictated) }

NoteTables == UNION { [1..n -> RowPool] : n \in 0..MaxRows }

NotesIdle ==
    /\ notes_df = <<>> /\ clean_df = <<>> /\ notes_pc = "off"
    /\ notes_grouped = <<>> /\ note_sequences = <<>>

\* line 12
InitNotes ==
    /\ notes_df \in NoteTables
    /\ clean_df = <<>>
    /\ notes_pc = "filter"
    /\ notes_grouped = <<>> /\ note_sequences = <<>>

\* lines 15-19
FilterRows ==
    /\ notes_pc = "filter"
    /\ notes_df' = SelectSeq(SelectSeq(notes_df, NotMissing), KeptCategory)
    /\ notes_pc' = "templates"
    /\ UNCHANGED <<clean_df, notes_grouped, note_sequences>>
    /\ UNCHANGED <<selVars, rlVars>>

\* line 34
DropTemplates ==
    /\ notes_pc = "templates"
    /\ notes_df' = SelectSeq(notes_df, NotTemplate)
    /\ notes_pc' = "clean"
    /\ UNCHANGED <<clean_df, notes_grouped, note_sequences>>
    /\ UNCHANGED <<selVars, rlVars>>

\* line 37
CleanRows ==
    /\ notes_pc = "clean"
    /\ notes_df' = [i \in 1..Len(notes_df) |->
                       [notes_df[i] EXCEPT !.TEXT = clean_text(@)]]
    /\ clean_df' = notes_df'
    /\ notes_pc' = "sort"
    /\ UNCHANGED <<notes_grouped, note_sequences>>
    /\ UNCHANGED <<selVars, rlVars>>

\* lines 42-43; rows with equal keys may come out in any order
SortRows ==
    /\ notes_pc = "sort"
    /\ LET parsed == [i \in 1..Len(notes_df) |->
                         [notes_df[i] EXCEPT !.CHARTTIME = ToDatetime(@)]]
           n == Len(parsed)
       IN  \E p \in {q \in [1..n -> 1..n] : \A i, j \in 1..n : i # j => q[i] # q[j]} :
               /\ \A i \in 1..(n - 1) : RowLeq(parsed[p[i]], parsed[p[i + 1]])
               /\ notes_df' = [i \in 1..n |-> parsed[p[i]]]
    /\ notes_pc' = "group"
    /\ UNCHANGED <<clean_df, notes_grouped, note_sequences>>
    /\ UNCHANGED <<selVars, rlVars>>

\* lines 46-51
BuildGroups ==
    /\ notes_pc = "group"
    /\ notes_grouped' = GroupRows(notes_df, <<>>)
    /\ notes_pc' = "merge"
    /\ UNCHANGED <<clean_df, notes_df, note_sequences>>
    /\ UNCHANGED <<selVars, rlVars>>

\* lines 56-75
MergeShortNotes ==
    /\ notes_pc = "merge"
    /\ note_sequences' =
           [subj_id \in {notes_grouped[k].subj : k \in 1..Len(notes_grouped)} |->
               LET hadm_dict == AdmissionsOf(notes_grouped, subj_id)
               IN  [k \in 1..Len(hadm_dict) |-> MergeNotes(hadm_dict[k].notes, <<>>, <<>>)]]
    /\ notes_pc' = "done"
    /\ UNCHANGED <<clean_df, notes_df, notes_grouped>>
    /\ UNCHANGED <<selVars, rlVars>>

(***************************************************************************)
(* Resource logger: resource_logger.py                                     *)
(***************************************************************************)

MaxInvocations == 2

MaxElapsed == 1

Invocations == 1..MaxInvocations

\* the tag of invocation i; the tags are distinct
Tag(i) == ToString(i)

\* psutil.cpu_percent(interval=None), in tenths of a percent
CpuSamples == {125}

\* shutil.disk_usage("/").used, in tenths of a GB
DiskSamples == {2500}

\* line 38
header == <<"tag", "elapsed_hr", "gpu_hrs", "cpu_pct", "disk_used_gb">>

\* line 39: the fields formatted as text (elapsed and gpu in thousandths of
\* an hour, cpu and disk in tenths)
DataRow(tag, elapsed_hr, gpu_hrs, cpu_pct, used_gb) ==
    <<tag, ToString(elapsed_hr), ToString(gpu_hrs), ToString(cpu_pct), ToString(used_gb)>>

NoLogFile == [exists |-> FALSE, rows |-> <<>>]

LoggerIdle ==
    /\ log = NoLogFile
    /\ rl_pc = [i \in Invocations |-> "off"]
    /\ rl_start = [i \in Invocations |-> 0]
    /\ rl_row = [i \in Invocations |-> <<>>]
    /\ rl_write_header = [i \in Invocations |-> FALSE]
    /\ rl_pending = [i \in Invocations |-> <<>>]
    /\ rl_completed = <<>> /\ clock = 0 /\ cuda = FALSE /\ concurrent = FALSE

InitLogger ==
    /\ log = NoLogFile
    /\ rl_pc = [i \in Invocations |-> "new"]
    /\ rl_start = [i \in Invocations |-> 0]
    /\ rl_row = [i \in Invocations |-> <<>>]
    /\ rl_write_header = [i \in Invocations |-> FALSE]
    /\ rl_pending = [i \in Invocations |-> <<>>]
    /\ rl_completed = <<>>
    /\ clock = 0
    /\ cuda \in BOOLEAN

\* no other invocation is between its entry and its end
NoneActive(i) == \A j \in Invocations \ {i} : rl_pc[j] \in {"new", "done", "raised"}

\* line 20: the with statement is entered
Enter(i) ==
    /\ rl_pc[i] = "new"
    /\ concurrent \/ NoneActive(i)
    /\ rl_start' = [rl_start EXCEPT ![i] = clock]
    /\ rl_pc' = [rl_pc EXCEPT ![i] = "body"]
    /\ UNCHANGED <<log, rl_row, rl_write_header, rl_pending, rl_completed, clock, cuda,
                   concurrent>>
    /\ UNCHANGED <<selVars, noteVars>>

\* lines 21-39: the block completes normally; the row is built
BlockCompletes(i) ==
    /\ rl_pc[i] = "body"
    /\ \E d \in 0..MaxElapsed, cpu_pct \in CpuSamples, used_gb \in DiskSamples :
        /\ clock' = clock + d
        /\ LET elapsed_hr == clock' - rl_start[i]
               gpu_hrs == IF cuda THEN elapsed_hr ELSE 0
           IN  rl_row' = [rl_row EXCEPT
                             ![i] = DataRow(Tag(i), elapsed_hr, gpu_hrs, cpu_pct, used_gb)]
    /\ rl_completed' = Append(rl_completed, Tag(i))
    /\ rl_pc' = [rl_pc EXCEPT ![i] = "check"]
    /\ UNCHANGED <<log, rl_start, rl_write_header, rl_pending, cuda, concurrent>>
    /\ UNCHANGED <<selVars, noteVars>>

\* line 21: the block raises; the generator has no try/finally, so nothing
\* after the yield runs
BlockRaises(i) ==
    /\ rl_pc[i] = "body"
    /\ rl_pc' = [rl_pc EXCEPT ![i] = "raised"]
    /\ UNCHANGED <<log, rl_start, rl_row, rl_write_header, rl_pending, rl_completed,
                   clock, cuda, concurrent>>
    /\ UNCHANGED <<selVars, noteVars>>

\* line 41
CheckExists(i) ==
    /\ rl_pc[i] = "check"
    /\ rl_write_header' = [rl_write_header EXCEPT ![i] = ~log.exists]
    /\ rl_pc' = [rl_pc EXCEPT ![i] = "open"]
    /\ UNCHANGED <<log, rl_start, rl_row, rl_pending, rl_completed, clock, cuda,
                   concurrent>>
    /\ UNCHANGED <<selVars, noteVars>>

\* line 42: open(LOG_PATH, "a") creates the file when it is absent
OpenAppend(i) ==
    /\ rl_pc[i] = "open"
    /\ log' = [log EXCEPT !.exists = TRUE]
    /\ rl_pc' = [rl_pc EXCEPT ![i] = "write"]
    /\ UNCHANGED <<rl_start, rl_row, rl_write_header, rl_pending, rl_completed, clock,
                   cuda, concurrent>>
    /\ UNCHANGED <<selVars, noteVars>>

\* A faulty variant of WriteRows: the header is written when the file holds no row
\* yet, whatever line 41 found.
WriteRowsRecheck(i) ==
    /\ rl_pc[i] = "write"
    /\ rl_pending' = [rl_pending EXCEPT
                         ![i] = (IF log.rows = <<>> THEN <<header>> ELSE <<>>)
                                \o <<rl_row[i]>>]
    /\ rl_pc' = [rl_pc EXCEPT ![i] = "close"]
    /\ UNCHANGED <<log, rl_start, rl_row, rl_write_header, rl_completed, clock, cuda,
                   concurrent>>
    /\ UNCHANGED <<selVars, noteVars>>

\* A faulty variant of WriteRows: the header is written on every call.
WriteRowsAlwaysHeader(i) ==
    /\ rl_pc[i] = "write"
    /\ rl_pending' = [rl_pending EXCEPT ![i] = <<header, rl_row[i]>>]
    /\ rl_pc' = [rl_pc EXCEPT ![i] = "close"]
    /\ UNCHANGED <<log, rl_start, rl_row, rl_write_header, rl_completed, clock, cuda,
                   concurrent>>
    /\ UNCHANGED <<selVars, noteVars>>

\* lines 43-46: the rows go to the file object's buffer
WriteRows(i) ==
    /\ rl_pc[i] = "write"
    /\ rl_pending' = [rl_pending EXCEPT
                         ![i] = (IF rl_write_header[i] THEN <<header>> ELSE <<>>)
                                \o <<rl_row[i]>>]
    /\ rl_pc' = [rl_pc EXCEPT ![i] = "close"]
    /\ UNCHANGED <<log, rl_start, rl_row, rl_write_header, rl_completed, clock, cuda,
                   concurrent>>
    /\ UNCHANGED <<selVars, noteVars>>

\* the end of the with block of line 42: the buffer is appended to the file
CloseFile(i) ==
    /\ rl_pc[i] = "close"
    /\ log' = [log EXCEPT !.rows = @ \o rl_pending[i]]
    /\ rl_pc' = [rl_pc EXCEPT ![i] = "done"]
    /\ UNCHANGED <<rl_start, rl_row, rl_write_header, rl_pending, rl_completed, clock,
                   cuda, concurrent>>
    /\ UNCHANGED <<selVars, noteVars>>

(***************************************************************************)
(* Specifications: one script runs, the other two are not started          *)
(***************************************************************************)

NextSelector ==
    \/ FindFolds
    \/ CollectScores
    \/ FindBest
    \/ CopyTxt
    \/ CopyPkl
    \/ CopyMetrics
    \/ WriteCard

NextNotes ==
    \/ FilterRows
    \/ DropTemplates
    \/ CleanRows
    \/ SortRows
    \/ BuildGroups
    \/ MergeShortNotes

NextLogger ==
    \E i \in Invocations :
        \/ Enter(i)
        \/ BlockCompletes(i)
        \/ BlockRaises(i)
        \/ CheckExists(i)
        \/ OpenAppend(i)
        \/ WriteRows(i)
        \/ CloseFile(i)

SelectorStarts == InitSelector /\ NotesIdle /\ LoggerIdle

NotesStart == InitNotes /\ SelectorIdle /\ LoggerIdle

LoggerStartsSeq == InitLogger /\ concurrent = FALSE /\ SelectorIdle /\ NotesIdle

LoggerStartsConc == InitLogger /\ concurrent = TRUE /\ SelectorIdle /\ NotesIdle

\* the selector runs once on a directory
SpecSelector == SelectorStarts /\ [][NextSelector]_vars

\* the aggregator runs once on a note table
SpecNotes == NotesStart /\ [][NextNotes]_vars

\* ResourceLogger blocks run one after another
SpecLoggerSeq == LoggerStartsSeq /\ [][NextLogger]_vars

\* ResourceLogger blocks of several threads or processes overlap
SpecLoggerConc == LoggerStartsConc /\ [][NextLogger]_vars

Init == SelectorStarts \/ NotesStart \/ LoggerStartsSeq \/ LoggerStartsConc

Next == NextSelector \/ NextNotes \/ NextLogger

Spec == Init /\ [][Next]_vars

(***************************************************************************)
(* Properties of the selector                                              *)
(***************************************************************************)

\* the fold-score files of the directory the run started from
FoldFiles0 == {n \in DOMAIN fs0 : fs0[n].kind = "folds"}

\* the mean Macro-F1 of fold-score file n
FileMean(n) == Mean(fs0[n].macro_f1)

\* step 3 has chosen best_file
Selected ==
    \/ sel_pc \in {"copy_txt", "copy_pkl", "copy_metrics", "card", "done"}
    \/ sel_pc = "failed" /\ sel_error = "ValueError"

\* C1: for every non-empty set of fold-score files, the file the selector
\* picks as best is one of them, and its mean Macro-F1 is greater than or
\* equal to the mean of every file of the set.
C1_BestHasMaximalMean ==
    Selected =>
        /\ Basename(best_file) \in FoldFiles0
        /\ MeanEq(best_avg_f1, FileMean(Basename(best_file)))
        /\ \A n \in FoldFiles0 : ~MeanLess(FileMean(Basename(best_file)), FileMean(n))

\* C1 happens: two files with different means, and the one chosen is not the
\* first of the sorted list.
C1_Witness ==
    /\ Selected
    /\ Len(fold_score_files) = 2
    /\ best_file = fold_score_files[2]
    /\ MeanLess(FileMean(Basename(fold_score_files[1])), FileMean(Basename(best_file)))

\* C10: on exact ties the choice is determined: among the fold-score files
\* that share the maximum mean, the one chosen is the one whose path comes
\* first in lexicographic order.
C10_TieGoesToFirstPath ==
    Selected =>
        \A n \in FoldFiles0 :
            MeanEq(FileMean(n), FileMean(Basename(best_file)))
                => (PathOf(n) = best_file \/ StrLess(best_file, PathOf(n)))

\* C10 happens: iter1 and iter10 tie on the maximum mean.
C10_Witness ==
    /\ Selected
    /\ best_iter = Iter1
    /\ (FoldPrefix \o Iter10 \o CsvExt) \in FoldFiles0
    /\ MeanEq(FileMean(FoldPrefix \o Iter10 \o CsvExt), best_avg_f1)
    /\ FileMean(FoldPrefix \o Iter10 \o CsvExt) # best_avg_f1

\* the name holds "iter" followed by a digit
HasIterTag(name) ==
    \E i \in 1..Len(name) :
        /\ i + 4 <= Len(name)
        /\ <<name[i], name[i + 1], name[i + 2], name[i + 3]>> = <<"i", "t", "e", "r">>
        /\ name[i + 4] \in Digits

\* the fold-score files that hold the maximum mean
MaximalFiles0 ==
    {n \in FoldFiles0 : \A m \in FoldFiles0 : ~MeanLess(FileMean(n), FileMean(m))}

\* C7: the selector fails when no fold-score file exists, and fails when the
\* winning file's name holds no iter<digits> tag; a failed run has copied
\* nothing and written no report: the directory is as it was.
C7_FailuresLeaveDirectoryUnchanged ==
    /\ (sel_pc # "start" /\ FoldFiles0 = {})
           => (sel_pc = "failed" /\ sel_error = "FileNotFoundError")
    /\ (Selected /\ ~HasIterTag(Basename(best_file)))
           => (sel_pc = "failed" /\ sel_error = "ValueError")
    /\ (sel_pc \notin {"start", "collect", "best"} /\ FoldFiles0 # {}
            /\ \A n \in MaximalFiles0 : ~HasIterTag(n))
           => (sel_pc = "failed" /\ sel_error = "ValueError")
    /\ sel_pc = "failed" => (fs = fs0 /\ copied = {})

\* C7 happens: the winner has no tag while artifacts of iter1 lie in the
\* directory.
C7_Witness ==
    /\ sel_pc = "failed"
    /\ sel_error = "ValueError"
    /\ (ModelPrefix \o Iter1 \o TxtExt) \in DOMAIN fs0
    /\ (FoldPrefix \o Iter1 \o CsvExt) \in DOMAIN fs0

\* the iteration tags of the directories
IterationTags == {Iter1, Iter10}

\* name is a metrics file of iteration tag
IsMetricsOf(name, tag) ==
    /\ StartsWith(name, MetricsPrefix \o tag \o <<"_">>)
    /\ EndsWith(name, CsvExt)
    /\ Len(name) >= Len(MetricsPrefix) + Len(tag) + 1 + Len(CsvExt)

\* name is the fold-score file, a model file or a metrics file of iteration tag
BelongsTo(name, tag) ==
    \/ name = FoldPrefix \o tag \o CsvExt
    \/ name = ModelPrefix \o tag \o TxtExt
    \/ name = ModelPrefix \o tag \o PklExt
    \/ IsMetricsOf(name, tag)

\* C2: after a successful run with winning tag T, every file named
\* stacker_binary_metrics_T_*.csv has a copy under its name with T replaced by
\* "across_iterations", and no file of another iteration is changed, removed,
\* overwritten or copied.
C2_WinnerMetricsCopiedOthersUntouched ==
    sel_pc = "done" =>
        /\ \A n \in DOMAIN fs0 :
               IsMetricsOf(n, best_iter) =>
                   LET copy == Replace(n, best_iter, AcrossIterations)
                   IN  /\ copy \in DOMAIN fs
                       /\ fs[copy] = fs0[n]
                       /\ <<n, copy>> \in copied
        /\ \A n \in DOMAIN fs0 :
               (\E t \in IterationTags \ {best_iter} : BelongsTo(n, t)) =>
                   /\ n \in DOMAIN fs
                   /\ fs[n] = fs0[n]
                   /\ \A c \in copied : c[1] # n /\ c[2] # n

\* C2 happens: iter1 wins with two metrics files, and a metrics file of
\* iter10 lies beside them.
C2_Witness ==
    /\ sel_pc = "done"
    /\ best_iter = Iter1
    /\ Len(metrics_files) = 2
    /\ (MetricsPrefix \o Iter10 \o <<"_","a">> \o CsvExt) \in DOMAIN fs0

\* C8: every artifact the report lists under "Saved Artifacts" is a file this
\* run copied from the winning iteration, whichever of the winner's .txt, .pkl
\* and metrics files exist.
C8_ReportListsOnlyCopiedFiles ==
    sel_pc = "done" =>
        LET listed == fs[output_model_card].card.artifacts
        IN  \A i \in 1..Len(listed) : \E c \in copied : c[2] = listed[i]

(***************************************************************************)
(* Properties of the note aggregator                                       *)
(***************************************************************************)

RECURSIVE JoinSp(_)
\* " ".join(notes)
JoinSp(notes) ==
    IF notes = <<>> THEN <<>>
    ELSE IF Len(notes) = 1 THEN notes[1]
         ELSE notes[1] \o <<" ">> \o JoinSp(Tail(notes))

RECURSIVE Words(_)
\* text.split(): the maximal runs of characters that are not whitespace
Words(text) ==
    LET t == DropWhile(text, Whitespace)
    IN  IF t = <<>> THEN <<>>
        ELSE LET n == CHOOSE k \in 1..Len(t) :
                          /\ \A j \in 1..k : t[j] \notin Whitespace
                          /\ (k = Len(t) \/ t[k + 1] \in Whitespace)
             IN  <<SubSeq(t, 1, n)>> \o Words(SubSeq(t, n + 1, Len(t)))

\* the output list of the k-th admission of notes_grouped
OutputOf(k) ==
    note_sequences[notes_grouped[k].subj]
                  [Cardinality({m \in 1..k : notes_grouped[m].subj = notes_grouped[k].subj})]

IsShort(note) == Len(note) < min_note_len

\* C3: every note of an admission's output list has at least min_note_len
\* (40) characters or is the last element of that list.
C3_ShortOnlyAsLastOutput ==
    notes_pc = "done" =>
        \A k \in 1..Len(notes_grouped) :
            \A i \in 1..Len(OutputOf(k)) :
                Len(OutputOf(k)[i]) >= min_note_len \/ i = Len(OutputOf(k))

\* C4: within one admission, a run of short notes that a long-enough note
\* follows comes out as one single output note: the short texts and the long
\* note's text joined by spaces, in order.
C4_ShortRunJoinsNextLongNote ==
    notes_pc = "done" =>
        \A k \in 1..Len(notes_grouped) :
            LET L == notes_grouped[k].notes
            IN  \A i \in 1..Len(L), j \in 1..Len(L) :
                    ( /\ i <= j /\ j < Len(L)
                      /\ \A m \in i..j : IsShort(L[m])
                      /\ (i = 1 \/ ~IsShort(L[i - 1]))
                      /\ ~IsShort(L[j + 1]) )
                    => \E o \in 1..Len(OutputOf(k)) :
                           OutputOf(k)[o] = JoinSp(SubSeq(L, i, j + 1))

\* the subjects of the retained (filtered and cleaned) rows
RetainedSubjects == {clean_df[i].SUBJECT_ID : i \in 1..Len(clean_df)}

\* the admissions of subject s among the retained rows
RetainedAdmissions(s) ==
    {clean_df[i].HADM_ID : i \in {r \in 1..Len(clean_df) : clean_df[r].SUBJECT_ID = s}}

\* the retained rows of admission h of subject s
RowsOf(s, h) ==
    {i \in 1..Len(clean_df) : clean_df[i].SUBJECT_ID = s /\ clean_df[i].HADM_ID = h}

\* the place of admission h among the admissions of subject s
Rank(s, h) == Cardinality({x \in RetainedAdmissions(s) : x <= h})

\* the orders of the rows I in which the valid timestamps never decrease
ChronologicalOrders(I) ==
    {p \in [1..Cardinality(I) -> I] :
        /\ \A a, b \in 1..Cardinality(I) : a # b => p[a] # p[b]
        /\ \A a, b \in 1..Cardinality(I) :
               (a < b /\ ToDatetime(clean_df[p[a]].CHARTTIME) # NaT
                      /\ ToDatetime(clean_df[p[b]].CHARTTIME) # NaT)
                   => ToDatetime(clean_df[p[a]].CHARTTIME)
                          <= ToDatetime(clean_df[p[b]].CHARTTIME)}

\* the cleaned texts of the rows p, in the order p
InputNotes(p) == [k \in DOMAIN p |-> clean_df[p[k]].TEXT]

\* the output holds the retained subjects and, for each, its admissions
SameAdmissions ==
    /\ DOMAIN note_sequences = RetainedSubjects
    /\ \A s \in RetainedSubjects :
           Len(note_sequences[s]) = Cardinality(RetainedAdmissions(s))

\* C5 as stated: for every admission, joining its output notes in order gives
\* exactly its retained input notes joined in non-decreasing timestamp order,
\* each input note once.
C5_JoinedOutputIsJoinedInput ==
    notes_pc = "done" =>
        /\ SameAdmissions
        /\ \A s \in RetainedSubjects : \A h \in RetainedAdmissions(s) :
               LET out == JoinSp(note_sequences[s][Rank(s, h)])
               IN  \E p \in ChronologicalOrders(RowsOf(s, h)) : out = JoinSp(InputNotes(p))

\* C5 as amended: for every admission, joining its output notes in order gives
\* the words of its retained input notes joined in non-decreasing timestamp
\* order, each input note once; and exactly the same text when none of the
\* admission's notes is empty after cleaning.
C5_JoinedOutputHasInputWords ==
    notes_pc = "done" =>
        /\ SameAdmissions
        /\ \A s \in RetainedSubjects : \A h \in RetainedAdmissions(s) :
               LET out == JoinSp(note_sequences[s][Rank(s, h)])
               IN  \E p \in ChronologicalOrders(RowsOf(s, h)) :
                       LET notes == InputNotes(p)
                           inp == JoinSp(notes)
                       IN  IF \A k \in DOMAIN notes : notes[k] # <<>>
                           THEN out = inp
                           ELSE Words(out) = Words(inp)

\* C5 happens: an admission of three non-empty notes, a short one merged
\* into its neighbour, the rows loaded out of timestamp order.
C5_Witness ==
    /\ notes_pc = "done"
    /\ Len(clean_df) = 3
    /\ RowsOf(1, 100) = {1, 2, 3}
    /\ \A i \in 1..3 : clean_df[i].TEXT # <<>>
    /\ clean_df[1].CHARTTIME = 2 /\ clean_df[2].CHARTTIME = 1
    /\ Len(note_sequences[1][1]) = 2

(***************************************************************************)
(* Properties of the resource logger                                       *)
(***************************************************************************)

\* no invocation is between its entry and its end
Quiescent == \A i \in Invocations : rl_pc[i] \in {"new", "done", "raised"}

HeaderRows == {k \in 1..Len(log.rows) : log.rows[k] = header}

\* C6: starting with no log file, after N scoped invocations with distinct
\* tags that ran one after another and completed normally, the log holds
\* exactly one header row, as its first row, and then N data rows, one per
\* invocation with its tag, in the order the blocks completed.
C6_OneHeaderThenOneRowPerInvocation ==
    Quiescent =>
        LET N == Len(rl_completed)
        IN  IF N = 0
            THEN ~log.exists /\ log.rows = <<>>
            ELSE /\ log.exists
                 /\ Len(log.rows) = N + 1
                 /\ HeaderRows = {1}
                 /\ \A k \in 1..N : log.rows[k + 1][1] = rl_completed[k]

\* C6 happens: two invocations have completed.
C6_Witness ==
    /\ Quiescent
    /\ Len(rl_completed) = 2
    /\ Len(log.rows) = 3

\* C9: the check for the log file's existence and the append are separate
\* steps: every invocation that found the file absent writes the header,
\* whatever the others did in between, so that with two overlapping
\* invocations a log with more than one header row is reachable.
C9_HeaderPerInvocationThatSawNoFile ==
    Cardinality(HeaderRows) =
        Cardinality({i \in Invocations : rl_pc[i] = "done" /\ rl_write_header[i]})

\* C9 happens: both invocations saw no file, and the log holds two header
\* rows, the second after a data row.
C9_Witness ==
    /\ \A i \in Invocations : rl_write_header[i]
    /\ Cardinality(HeaderRows) >= 2
    /\ 3 \in HeaderRows

====
